---- MODULE Spec2Model ----
(***************************************************************************)
(* Model of saas/api/backend.py: the REST handlers RetrieveBankAPIView and *)
(* PaymentMethodDetailAPIView, which pass requests through to the payment  *)
(* processor reached via the Organization of the request.                  *)
(*                                                                         *)
(* One action per HTTP request; an action runs the whole handler, from the *)
(* dispatch on the HTTP method to the HTTP response, and records every     *)
(* outbound call the handler made in `calls`.  What the processor answers  *)
(* to a call (a value, a ProcessorError, another exception) is chosen by   *)
(* the environment.                                                        *)
(***************************************************************************)
EXTENDS Integers, Sequences, FiniteSets, TLC

VARIABLES
    card,       \* the payment method on file at the processor
    bank,       \* the deposit account of the provider at the processor
    request,    \* the request served last
    response,   \* the HTTP response to it
    raised,     \* type of the exception that left the handler ("" if none)
    calls,      \* outbound calls made while serving it, in order
    prev        \* the exchange before: its request, response and card after

vars == <<card, bank, request, response, raised, calls, prev>>

----------------------------------------------------------------------------
(* Python and JSON values *)

\* None / JSON null, and a str
PyNone == [t |-> "null", v |-> ""]
PyStr(s) == [t |-> "str", v |-> s]

\* the default handed to query_params.get()
PyFalse == [t |-> "bool", v |-> ""]

\* bool(v) for the values above: None, False and '' are falsy
truthy(v) == v.t = "str" /\ v.v # ""

\* dict.update(): keys of e are added to d or overwrite those of d
dict_update(d, e) ==
    [k \in (DOMAIN d) \cup (DOMAIN e) |-> IF k \in DOMAIN e THEN e[k] ELSE d[k]]

\* dict.get(key, default)
dict_get(d, key, default) == IF key \in DOMAIN d THEN d[key] ELSE default

\* the empty dict
EmptyDict == [k \in {} |-> PyNone]

----------------------------------------------------------------------------
(* The data of the model *)

Organization == "xia"
User == "alice"
Broker == "broker"

NoCard == [last4 |-> "N/A", exp_date |-> "N/A"]
Cards == { [last4 |-> "1234", exp_date |-> "12/2019"],
           [last4 |-> "4242", exp_date |-> "01/2030"] }

Banks == { [bank_name |-> "Stripe Test Bank", last4 |-> "***-htrTZ",
            balance_amount |-> 0, balance_unit |-> "usd"],
           [bank_name |-> "N/A", last4 |-> "N/A",
            balance_amount |-> 100, balance_unit |-> "eur"] }

PaymentContexts == { [STRIPE_INTENT_SECRET |-> "seti_A"],
                     [STRIPE_INTENT_SECRET |-> "seti_B"] }

\* what a processor reports when it rejects an operation
Reasons == {"Card declined", "Token expired"}

\* query strings of GET /card: none, ?update=, ?update=0, ?update=1
QueryParams == { EmptyDict, [update |-> PyStr("")], [update |-> PyStr("0")],
                 [update |-> PyStr("1")] }

\* request bodies of PUT and PATCH: {}, {"token": null}, {"token": ""},
\* {"token": "xyz"}, {"token": "bad"}, {"last4": "9999"}, {"last4": null}
Payloads == { EmptyDict, [token |-> PyNone], [token |-> PyStr("")],
              [token |-> PyStr("xyz")], [token |-> PyStr("bad")],
              [last4 |-> PyStr("9999")], [last4 |-> PyNone] }

\* exceptions: a type and its args
ProcessorError(reason) == [type |-> "ProcessorError", args |-> <<reason>>]
OtherError(reason) == [type |-> "Exception", args |-> <<reason>>]
NoError == [type |-> "", args |-> <<>>]

\* what a call to the processor comes back with
Ok(value) == [ok |-> TRUE, value |-> value, exc |-> NoError]
Raise(exc) == [ok |-> FALSE, value |-> EmptyDict, exc |-> exc]

Failures == { Raise(ProcessorError(r)) : r \in Reasons }
              \cup { Raise(OtherError("connection reset")) }

\* an outbound call: its arguments by name and what it came back with
Call(op, args, res) == [op |-> op, args |-> args, res |-> res]

----------------------------------------------------------------------------
(* The web framework: responses, exceptions, serializers *)

\* what a handler ends with: a Response(data, status=200) or an exception
Response(data, status) == [type |-> "", status |-> status, data |-> data]
Raised(exc) == [type |-> exc.type, status |-> 0, data |-> exc]

HTTP_200_OK == 200
HTTP_400_BAD_REQUEST == 400
HTTP_500_INTERNAL_SERVER_ERROR == 500

\* str(err) of an exception built from one message
force_str(err) == IF Len(err.args) = 1 THEN err.args[1] ELSE ""

\* ValidationError(err): the detail is the list of one message, str(err)
ValidationError(err) == [type |-> "ValidationError", detail |-> <<force_str(err)>>]

\* what is_valid(raise_exception=True) raises: the detail is the errors by field
SerializerError(errors) == [type |-> "ValidationError", detail |-> errors]

\* the HTTP response of the framework to what the handler ended with: a
\* ValidationError is a 400 whose body is its detail, any exception the
\* framework does not know is a 500
finalize_response(out) ==
    IF out.type = "" THEN [status |-> out.status, data |-> out.data]
    ELSE IF out.type = "ValidationError"
         THEN [status |-> HTTP_400_BAD_REQUEST, data |-> out.data.detail]
         ELSE [status |-> HTTP_500_INTERNAL_SERVER_ERROR,
               data |-> [detail |-> "Server Error (500)"]]

\* the serializers of .serializers: the fields each declares, all required
CardSerializer == [name |-> "CardSerializer", fields |-> {"last4", "exp_date"}]
CardTokenSerializer == [name |-> "CardTokenSerializer", fields |-> {"token"}]

\* the error of one field of the payload, "" when it has none
field_error(f, data, partial) ==
    IF f \notin DOMAIN data
    THEN IF partial THEN "" ELSE "This field is required."
    ELSE IF data[f].t = "null" THEN "This field may not be null."
    ELSE IF data[f].t = "str" /\ data[f].v = "" THEN "This field may not be blank."
    ELSE ""

\* serializer.errors, serializer.is_valid() and serializer.validated_data
serializer_errors(cls, data, partial) ==
    [f \in {g \in cls.fields : field_error(g, data, partial) # ""}
        |-> <<field_error(f, data, partial)>>]

is_valid(cls, data, partial) == DOMAIN serializer_errors(cls, data, partial) = {}

validated_data(cls, data, partial) ==
    [f \in cls.fields \cap DOMAIN data |-> data[f]]

----------------------------------------------------------------------------
(* The Organization and the processor behind it *)

\* organization.retrieve_bank(): the deposit account, or a failure
retrieve_bank(b) == {Ok(b)} \cup Failures

\* organization.retrieve_card(): the card on file, or a failure
retrieve_card(c) == {Ok(c)} \cup Failures

\* organization.update_card(token, user): the processor attaches the card a
\* token stands for, rejects the token or fails; None is no token
update_card(token, user) ==
    (IF token.t = "str" /\ token.v # "" THEN {Ok(c) : c \in Cards} ELSE {})
        \cup Failures

\* organization.delete_card(): no card is on file afterwards, whether or
\* not one was
delete_card(c) == {Ok(NoCard)}

\* broker.processor_backend.get_payment_context(organization, provider, broker)
get_payment_context(organization, provider, broker) ==
    {Ok(ctx) : ctx \in PaymentContexts} \cup Failures

\* get_broker()
get_broker == Broker

----------------------------------------------------------------------------
(* The handlers.  Each takes the card on file (onfile) and what the         *)
(* processor answers to the calls it makes, and gives what the handler     *)
(* ends with (out), the outbound calls it made and the card on file after. *)

Result(out, made, onfile) == [out |-> out, calls |-> made, card |-> onfile]

\* request.method.lower()
lower(method) ==
    CASE method = "GET" -> "get"
      [] method = "PUT" -> "put"
      [] method = "PATCH" -> "patch"
      [] method = "DELETE" -> "delete"

\* RetrieveBankAPIView.retrieve, had it kept only part of the account
RetrieveBankAPIView_retrieve_partial(onfile, bankRes) ==
    LET made == <<Call("retrieve_bank", EmptyDict, bankRes)>>
    IN  IF bankRes.ok
        THEN Result(Response([f \in {"bank_name", "last4"} |-> bankRes.value[f]],
                             HTTP_200_OK), made, onfile)
        ELSE Result(Raised(bankRes.exc), made, onfile)

\* RetrieveBankAPIView.retrieve
RetrieveBankAPIView_retrieve(onfile, bankRes) ==
    LET made == <<Call("retrieve_bank", EmptyDict, bankRes)>>
    IN  IF bankRes.ok
        THEN Result(Response(bankRes.value, HTTP_200_OK), made, onfile)
        ELSE Result(Raised(bankRes.exc), made, onfile)

\* PaymentMethodDetailAPIView.get_serializer_class
get_serializer_class(method) ==
    IF lower(method) \in {"put"} THEN CardTokenSerializer ELSE CardSerializer

\* destroy, had it answered 404 when no card is on file
destroy_notfound(onfile, delRes) ==
    LET made == <<Call("delete_card", EmptyDict, delRes)>>
    IN  IF onfile = NoCard
        THEN Result(Raised([type |-> "Http404", args |-> <<"Not found.">>]),
                    <<>>, onfile)
        ELSE Result(Response(
                 [detail |-> "Your credit card is no longer on file with us."],
                 HTTP_200_OK), made, delRes.value)

\* PaymentMethodDetailAPIView.destroy
destroy(onfile, delRes) ==
    LET made == <<Call("delete_card", EmptyDict, delRes)>>
    IN  IF delRes.ok
        THEN Result(Response(
                 [detail |-> "Your credit card is no longer on file with us."],
                 HTTP_200_OK), made, delRes.value)
        ELSE Result(Raised(delRes.exc), made, onfile)

\* retrieve, had it fetched the payment context whatever the query says
retrieve_always(onfile, query_params, cardRes, ctxRes) ==
    LET made == <<Call("retrieve_card", EmptyDict, cardRes)>>
        broker == get_broker
        more == Append(made, Call("get_payment_context",
                    [organization |-> Organization, provider |-> broker,
                     broker |-> broker], ctxRes))
    IN  IF ~cardRes.ok THEN Result(Raised(cardRes.exc), made, onfile)
        ELSE IF ~ctxRes.ok THEN Result(Raised(ctxRes.exc), more, onfile)
        ELSE Result(Response(dict_update(cardRes.value,
                        [processor |-> ctxRes.value]), HTTP_200_OK),
                    more, onfile)

\* retrieve, had it asked for the card again after a failure
retrieve_retry(onfile, query_params, cardRes, ctxRes) ==
    LET made == <<Call("retrieve_card", EmptyDict, cardRes)>>
        again == Append(made, Call("retrieve_card", EmptyDict, cardRes))
        broker == get_broker
        more == Append(made, Call("get_payment_context",
                    [organization |-> Organization, provider |-> broker,
                     broker |-> broker], ctxRes))
    IN  IF ~cardRes.ok THEN Result(Raised(cardRes.exc), again, onfile)
        ELSE IF truthy(dict_get(query_params, "update", PyFalse))
        THEN IF ~ctxRes.ok THEN Result(Raised(ctxRes.exc), more, onfile)
             ELSE Result(Response(dict_update(cardRes.value,
                             [processor |-> ctxRes.value]), HTTP_200_OK),
                         more, onfile)
        ELSE Result(Response(cardRes.value, HTTP_200_OK), made, onfile)

\* PaymentMethodDetailAPIView.retrieve
retrieve(onfile, query_params, cardRes, ctxRes) ==
    LET made == <<Call("retrieve_card", EmptyDict, cardRes)>>
        broker == get_broker
        more == Append(made, Call("get_payment_context",
                    [organization |-> Organization, provider |-> broker,
                     broker |-> broker], ctxRes))
    IN  IF ~cardRes.ok THEN Result(Raised(cardRes.exc), made, onfile)
        ELSE IF truthy(dict_get(query_params, "update", PyFalse))
        THEN IF ~ctxRes.ok THEN Result(Raised(ctxRes.exc), more, onfile)
             ELSE Result(Response(dict_update(cardRes.value,
                             [processor |-> ctxRes.value]), HTTP_200_OK),
                         more, onfile)
        ELSE Result(Response(cardRes.value, HTTP_200_OK), made, onfile)

\* the token PaymentMethodDetailAPIView.update takes out of the payload
update_token(method, data, partial) ==
    dict_get(validated_data(get_serializer_class(method), data, partial),
             "token", PyNone)

\* update, had it not caught the ProcessorError
update_nocatch(onfile, method, data, partial, user, newRes) ==
    LET serializer == get_serializer_class(method)
        token == update_token(method, data, partial)
        made == <<Call("update_card", [token |-> token, user |-> user],
                       newRes)>>
    IN  IF ~is_valid(serializer, data, partial)
        THEN Result(Raised(SerializerError(
                        serializer_errors(serializer, data, partial))),
                    <<>>, onfile)
        ELSE IF newRes.ok
        THEN Result(Response(dict_update(newRes.value,
                 [detail |-> "Your credit card on file was sucessfully updated."]),
                 HTTP_200_OK), made, newRes.value)
        ELSE Result(Raised(newRes.exc), made, onfile)

\* update, had it caught every exception
update_catchall(onfile, method, data, partial, user, newRes) ==
    LET serializer == get_serializer_class(method)
        token == update_token(method, data, partial)
        made == <<Call("update_card", [token |-> token, user |-> user],
                       newRes)>>
    IN  IF ~is_valid(serializer, data, partial)
        THEN Result(Raised(SerializerError(
                        serializer_errors(serializer, data, partial))),
                    <<>>, onfile)
        ELSE IF newRes.ok
        THEN Result(Response(dict_update(newRes.value,
                 [detail |-> "Your credit card on file was sucessfully updated."]),
                 HTTP_200_OK), made, newRes.value)
        ELSE Result(Raised(ValidationError(newRes.exc)), made, onfile)

\* update, had it left the confirmation out
update_nodetail(onfile, method, data, partial, user, newRes) ==
    LET serializer == get_serializer_class(method)
        token == update_token(method, data, partial)
        made == <<Call("update_card", [token |-> token, user |-> user],
                       newRes)>>
    IN  IF ~is_valid(serializer, data, partial)
        THEN Result(Raised(SerializerError(
                        serializer_errors(serializer, data, partial))),
                    <<>>, onfile)
        ELSE IF newRes.ok
        THEN Result(Response(newRes.value, HTTP_200_OK), made, newRes.value)
        ELSE IF newRes.exc.type = "ProcessorError"
        THEN Result(Raised(ValidationError(newRes.exc)), made, onfile)
        ELSE Result(Raised(newRes.exc), made, onfile)

\* update, had it not raised on an invalid payload
update_novalidate(onfile, method, data, partial, user, newRes) ==
    LET serializer == get_serializer_class(method)
        token == update_token(method, data, partial)
        made == <<Call("update_card", [token |-> token, user |-> user],
                       newRes)>>
    IN  IF newRes.ok
        THEN Result(Response(dict_update(newRes.value,
                 [detail |-> "Your credit card on file was sucessfully updated."]),
                 HTTP_200_OK), made, newRes.value)
        ELSE IF newRes.exc.type = "ProcessorError"
        THEN Result(Raised(ValidationError(newRes.exc)), made, onfile)
        ELSE Result(Raised(newRes.exc), made, onfile)

\* PaymentMethodDetailAPIView.update
update(onfile, method, data, partial, user, newRes) ==
    LET serializer == get_serializer_class(method)
        token == update_token(method, data, partial)
        made == <<Call("update_card", [token |-> token, user |-> user],
                       newRes)>>
    IN  IF ~is_valid(serializer, data, partial)
        THEN Result(Raised(SerializerError(
                        serializer_errors(serializer, data, partial))),
                    <<>>, onfile)
        ELSE IF newRes.ok
        THEN Result(Response(dict_update(newRes.value,
                 [detail |-> "Your credit card on file was sucessfully updated."]),
                 HTTP_200_OK), made, newRes.value)
        ELSE IF newRes.exc.type = "ProcessorError"
        THEN Result(Raised(ValidationError(newRes.exc)), made, onfile)
        ELSE Result(Raised(newRes.exc), made, onfile)

----------------------------------------------------------------------------
(* The requests *)

Request(method, path, query_params, data) ==
    [method |-> method, path |-> path, query_params |-> query_params,
     data |-> data]

NoRequest == Request("", "", EmptyDict, EmptyDict)
NoResponse == [status |-> 0, data |-> EmptyDict]

Init ==
    /\ card \in Cards \cup {NoCard}
    /\ bank \in Banks
    /\ request = NoRequest
    /\ response = NoResponse
    /\ raised = ""
    /\ calls = <<>>
    /\ prev = [request |-> NoRequest, response |-> NoResponse, card |-> card]

\* the framework serves req with what the handler gave
Serve(req, res) ==
    /\ request' = req
    /\ response' = finalize_response(res.out)
    /\ raised' = res.out.type
    /\ calls' = res.calls
    /\ card' = res.card
    /\ prev' = [request |-> request, response |-> response, card |-> card]
    /\ UNCHANGED bank

\* GET /billing/{organization}/bank
GetBank ==
    \E bankRes \in retrieve_bank(bank) :
        Serve(Request("GET", "bank", EmptyDict, EmptyDict),
              RetrieveBankAPIView_retrieve(card, bankRes))

\* GET /billing/{organization}/card
GetCard ==
    \E q \in QueryParams, cardRes \in retrieve_card(card),
       ctxRes \in get_payment_context(Organization, get_broker, get_broker) :
        Serve(Request("GET", "card", q, EmptyDict),
              retrieve(card, q, cardRes, ctxRes))

\* PUT /billing/{organization}/card
PutCard ==
    \E data \in Payloads :
        \E newRes \in update_card(update_token("PUT", data, FALSE), User) :
            Serve(Request("PUT", "card", EmptyDict, data),
                  update(card, "PUT", data, FALSE, User, newRes))

\* PATCH /billing/{organization}/card: partial_update is update with partial
PatchCard ==
    \E data \in Payloads :
        \E newRes \in update_card(update_token("PATCH", data, TRUE), User) :
            Serve(Request("PATCH", "card", EmptyDict, data),
                  update(card, "PATCH", data, TRUE, User, newRes))

\* DELETE /billing/{organization}/card
DeleteCard ==
    \E delRes \in delete_card(card) :
        Serve(Request("DELETE", "card", EmptyDict, EmptyDict),
              destroy(card, delRes))

Next == GetBank \/ GetCard \/ PutCard \/ PatchCard \/ DeleteCard

Spec == Init /\ [][Next]_vars

----------------------------------------------------------------------------
(* Properties *)

IsPut == request.method = "PUT" /\ request.path = "card"
IsPatch == request.method = "PATCH" /\ request.path = "card"
IsDelete == request.method = "DELETE" /\ request.path = "card"
IsGetCard == request.method = "GET" /\ request.path = "card"
IsGetBank == request.method = "GET" /\ request.path = "bank"

\* the calls of one operation made while serving the request
CallsOf(op) == {i \in DOMAIN calls : calls[i].op = op}

\* the payload of the request passes the token serializer
PayloadValid == is_valid(CardTokenSerializer, request.data, FALSE)

\* C1: a PUT /card with a valid payload whose update_card raised a
\* ProcessorError is answered 400 with the reason the processor reported as
\* its error message, never 500 and never 200.
C1_ProcessorErrorIs400 ==
    (IsPut /\ PayloadValid) =>
        \A i \in CallsOf("update_card") :
            (~calls[i].res.ok /\ calls[i].res.exc.type = "ProcessorError") =>
                /\ response.status = 400
                /\ raised = "ValidationError"
                /\ response.data = <<calls[i].res.exc.args[1]>>

C1_Witness ==
    /\ IsPut /\ PayloadValid
    /\ response.status = 400
    /\ \E i \in CallsOf("update_card") :
          /\ calls[i].res.exc.type = "ProcessorError"
          /\ calls[i].res.exc.args = <<"Card declined">>

\* C2: a PUT /card whose update_card raised an exception that is not a
\* ProcessorError ends with that exception leaving the handler and a 500,
\* never a 400 or a 200, and update_card was called exactly once.
C2_OtherErrorIs500 ==
    IsPut =>
        \A i \in CallsOf("update_card") :
            (~calls[i].res.ok /\ calls[i].res.exc.type # "ProcessorError") =>
                /\ raised = calls[i].res.exc.type
                /\ response.status = 500
                /\ Cardinality(CallsOf("update_card")) = 1

C2_Witness ==
    /\ IsPut
    /\ response.status = 500
    /\ \E i \in CallsOf("update_card") : calls[i].res.exc.type = "Exception"

\* C3: a PUT /card whose update_card returned the new card is answered 200
\* with the last4 and exp_date update_card returned and a non-empty detail.
C3_AcceptedIs200 ==
    IsPut =>
        \A i \in CallsOf("update_card") :
            calls[i].res.ok =>
                /\ response.status = 200
                /\ DOMAIN response.data = {"last4", "exp_date", "detail"}
                /\ response.data["last4"] = calls[i].res.value.last4
                /\ response.data["exp_date"] = calls[i].res.value.exp_date
                /\ response.data["detail"] # ""

C3_Witness ==
    /\ IsPut
    /\ response.status = 200
    /\ \E i \in CallsOf("update_card") :
          calls[i].res.ok /\ calls[i].res.value # prev.card

C5_TokenNeverNull ==
    (IsPut \/ IsPatch) =>
        /\ \A i \in CallsOf("update_card") : calls[i].args.token.t = "str"
        /\ ~PayloadValid => (response.status = 400 /\ calls = <<>>)

C7_UpdateZeroIsPlain ==
    (IsGetCard /\ request.query_params = [update |-> PyStr("0")]) =>
        /\ CallsOf("get_payment_context") = {}
        /\ response.status = 200 => DOMAIN response.data = {"last4", "exp_date"}

\* C8 as stated: every request makes at most one outbound call to the
\* processor, and repeats none.
C8_AtMostOneCall ==
    /\ Len(calls) <= 1
    /\ \A i, j \in DOMAIN calls : calls[i].op = calls[j].op => i = j

\* C8 amended: GET /bank, GET /card without a truthy update, PUT /card and
\* DELETE /card make at most one outbound call; GET /card with a truthy
\* update makes retrieve_card and then, if that returned, get_payment_context;
\* no request repeats a call, whether it succeeded or failed.
C8_NoCallRepeated ==
    /\ \A i, j \in DOMAIN calls : calls[i].op = calls[j].op => i = j
    /\ \A i \in DOMAIN calls : i < Len(calls) => calls[i].res.ok
    /\ IF IsGetCard /\ truthy(dict_get(request.query_params, "update", PyFalse))
       THEN /\ Len(calls) \in {1, 2}
            /\ calls[1].op = "retrieve_card"
            /\ Len(calls) = 2 <=> calls[1].res.ok
            /\ Len(calls) = 2 => calls[2].op = "get_payment_context"
       ELSE Len(calls) <= 1

C8_Witness ==
    /\ IsGetCard
    /\ Len(calls) = 2
    /\ calls[1].op = "retrieve_card" /\ calls[1].res.ok
    /\ calls[2].op = "get_payment_context" /\ ~calls[2].res.ok

\* C9: the 200 response of GET /bank is what retrieve_bank returned, with
\* exactly the fields bank_name, last4, balance_amount and balance_unit.
C9_BankFields ==
    (IsGetBank /\ response.status = 200) =>
        /\ DOMAIN response.data =
              {"bank_name", "last4", "balance_amount", "balance_unit"}
        /\ \E i \in CallsOf("retrieve_bank") :
              calls[i].res.ok /\ response.data = calls[i].res.value

C9_Witness ==
    /\ IsGetBank
    /\ response.status = 200
    /\ response.data["bank_name"] = "Stripe Test Bank"
    /\ response.data["balance_amount"] = 0

====
